---- MODULE Spec2Model ----
(***************************************************************************)
(* Voltorb Flip assistant (src/voltorb.py): exhaustive enumeration of the  *)
(* 5x5 boards consistent with row/column sums and bomb counts, posterior   *)
(* tallies per unrevealed cell, and the minimum-P(0) recommendation.       *)
(***************************************************************************)
EXTENDS Integers, Sequences, FiniteSets, TLC

N == 5
None == -1

Idx == 0 .. (N - 1)
Coord == Idx \X Idx
Vals == 0 .. 3

VARIABLES
    row_sums, row_bombs, col_sums, col_bombs,   \* the four constraint lists
    opened,                                     \* dict Coord -> Val
    pc,                                         \* position of the running call
    row_r, patterns,                            \* _enumerate_row_patterns: argument r, result
    sols, counts, post, nsol, best, raised,     \* compute_posteriors / choose_next_safest
    all_row_patterns, solutions,                \* _enumerate_all_boards: its locals
    col_sum, col_bz, grid,
    stack, loop_i,                              \* dfs_row: active frames, loop position
    step, msg                                   \* interactive_game: step, last message

inputVars == <<row_sums, row_bombs, col_sums, col_bombs, opened>>
rowVars   == <<row_r, patterns>>
solveVars == <<sols, counts, post, nsol, best, raised>>

postVars  == <<sols, counts, post, nsol, best>>
dfsVars   == <<all_row_patterns, solutions, col_sum, col_bz, grid, stack, loop_i>>
gameVars  == <<step, msg>>

vars == <<inputVars, pc, rowVars, solveVars, dfsVars, gameVars>>

-----------------------------------------------------------------------------
(* Generic helpers: Python's sum(), dict.get(), list concatenation.        *)

RECURSIVE SumUpTo(_, _)
SumUpTo(f, k) == IF k < 0 THEN 0 ELSE f[k] + SumUpTo(f, k - 1)

SumIdx(f) == SumUpTo(f, N - 1)

Get(d, r, c) == IF <<r, c>> \in DOMAIN d THEN d[<<r, c>>] ELSE None

\* A list or dict built by a comprehension holds its elements, not the
\* expression that computes them.
List(f) == f @@ << >>

-----------------------------------------------------------------------------
(* _row_remaining                                                          *)

\* Faulty variants: the revealed values are not taken off the row sum; the
\* revealed bombs are not taken off the row's bomb count.
RowRemainingGrossSum(r, rs, rb, op) ==
    LET Z_open == SumIdx([c \in Idx |-> IF <<r, c>> \in DOMAIN op /\ op[<<r, c>>] = 0 THEN 1 ELSE 0])
    IN  [R |-> rs[r], Z |-> rb[r] - Z_open]

RowRemainingGrossBombs(r, rs, rb, op) ==
    LET S == SumIdx([c \in Idx |-> IF <<r, c>> \in DOMAIN op THEN op[<<r, c>>] ELSE 0])
    IN  [R |-> rs[r] - S, Z |-> rb[r]]

RowRemaining(r, rs, rb, op) ==
    LET S      == SumIdx([c \in Idx |-> IF <<r, c>> \in DOMAIN op THEN op[<<r, c>>] ELSE 0])
        Z_open == SumIdx([c \in Idx |-> IF <<r, c>> \in DOMAIN op /\ op[<<r, c>>] = 0 THEN 1 ELSE 0])
    IN  [R |-> rs[r] - S, Z |-> rb[r] - Z_open]

-----------------------------------------------------------------------------
(* _enumerate_row_patterns: the inner dfs returns the patterns it appends, *)
(* in the order it appends them.  A pattern is a function Idx -> Vals; acc *)
(* is the list built so far (a sequence, acc[c+1] being column c).         *)

\* Faulty variant: revealed columns are counted as free.
ColsLeft(row_fixed, c) ==
    Cardinality({i \in Idx : i >= c})

ColsUnfixedLeft(row_fixed, c) ==
    Cardinality({i \in Idx : i >= c /\ row_fixed[i] = None})

Max0(x) == IF x > 0 THEN x ELSE 0

AsPattern(acc) == List([c \in Idx |-> acc[c + 1]])

RECURSIVE RowDfs(_, _, _, _, _)
RowDfs(row_fixed, c, rem_sum, rem_bombs, acc) ==
    LET cols_unfixed_left == ColsUnfixedLeft(row_fixed, c)
        nonbomb_slots     == cols_unfixed_left - rem_bombs
        Branch(v) ==
            LET new_rem_sum         == rem_sum - v
                nonbomb_slots_after == (cols_unfixed_left - 1) - rem_bombs
                min_p               == Max0(nonbomb_slots_after) * 1
                max_p               == Max0(nonbomb_slots_after) * 3
            IN  IF new_rem_sum < min_p \/ new_rem_sum > max_p
                THEN << >>
                ELSE RowDfs(row_fixed, c + 1, new_rem_sum, rem_bombs, Append(acc, v))
    IN  IF rem_bombs < 0 \/ rem_bombs > cols_unfixed_left THEN << >>
        ELSE IF rem_sum < nonbomb_slots * 1 \/ rem_sum > nonbomb_slots * 3 THEN << >>
        ELSE IF c = N
             THEN IF rem_sum = 0 /\ rem_bombs = 0 THEN << AsPattern(acc) >> ELSE << >>
        ELSE IF row_fixed[c] # None
             THEN RowDfs(row_fixed, c + 1, rem_sum, rem_bombs, Append(acc, row_fixed[c]))
        ELSE (IF rem_bombs > 0
              THEN RowDfs(row_fixed, c + 1, rem_sum, rem_bombs - 1, Append(acc, 0))
              ELSE << >>)
             \o Branch(1) \o Branch(2) \o Branch(3)

EnumerateRowPatterns(r, rs, rb, cs, cb, op) ==
    LET rem       == RowRemaining(r, rs, rb, op)
        row_fixed == [c \in Idx |-> Get(op, r, c)]
    IN  RowDfs(row_fixed, 0, rem.R, rem.Z, << >>)

-----------------------------------------------------------------------------
(* _col_bounds_so_far: None, or the interval (min_possible, max_possible). *)

\* Faulty variant: the largest multiplier taken for 2.
ColBoundsSoFarMax2(target_sum, target_bombs, partial_sum, partial_bombs, rows_left) ==
    LET bombs_left   == target_bombs - partial_bombs
        nonbomb_left == rows_left - bombs_left
    IN  IF bombs_left < 0 \/ bombs_left > rows_left
        THEN [none |-> TRUE, lo |-> 0, hi |-> 0]
        ELSE [none |-> FALSE,
              lo   |-> partial_sum + nonbomb_left * 1,
              hi   |-> partial_sum + nonbomb_left * 2]

ColBoundsSoFar(target_sum, target_bombs, partial_sum, partial_bombs, rows_left) ==
    LET bombs_left   == target_bombs - partial_bombs
        nonbomb_left == rows_left - bombs_left
    IN  IF bombs_left < 0 \/ bombs_left > rows_left
        THEN [none |-> TRUE, lo |-> 0, hi |-> 0]
        ELSE [none |-> FALSE,
              lo   |-> partial_sum + nonbomb_left * 1,
              hi   |-> partial_sum + nonbomb_left * 3]

-----------------------------------------------------------------------------
(* _enumerate_all_boards.  The search state shared by all frames of dfs_row*)
(* is the record st = [grid, col_sum, col_bz, solutions, raised]; raised   *)
(* records that int(None) at line 173 threw.                               *)

\* lines 151-157: the pattern lists of the five rows (row r at index r).
AllRowPatterns(rs, rb, cs, cb, op) ==
    List([r \in Idx |-> EnumerateRowPatterns(r, rs, rb, cs, cb, op)])

\* lines 159-165
InitSearch(op) ==
    [ grid      |-> List([r \in Idx |-> List([c \in Idx |-> Get(op, r, c)])]),
      col_sum   |-> List([c \in Idx |-> SumIdx([r \in Idx |-> IF <<r, c>> \in DOMAIN op
                                                               THEN op[<<r, c>>] ELSE 0])]),
      col_bz    |-> List([c \in Idx |-> Cardinality({r \in Idx : Get(op, r, c) = 0})]),
      solutions |-> << >>,
      raised    |-> FALSE ]

\* lines 168-174: the base case r == N
RecordIfComplete(cs, cb, st) ==
    IF \E c \in Idx : st.col_sum[c] # cs[c] \/ st.col_bz[c] # cb[c]
    THEN st
    ELSE IF \E r \in Idx, c \in Idx : st.grid[r][c] = None
         THEN [st EXCEPT !.raised = TRUE]
         ELSE [st EXCEPT !.solutions = Append(@, st.grid)]

\* lines 182-188: does row_pat agree with the cells already set in row r
PatternFits(g, r, row_pat) ==
    \A c \in Idx : g[r][c] = None \/ g[r][c] = row_pat[c]

\* lines 187-188: the per-column deltas of writing row_pat into row r
Incr(g, r, row_pat) ==
    [ sum |-> List([c \in Idx |-> row_pat[c] - (IF g[r][c] = None THEN 0 ELSE g[r][c])]),
      bz  |-> List([c \in Idx |-> (IF row_pat[c] = 0 THEN 1 ELSE 0)
                                   - (IF g[r][c] = 0 THEN 1 ELSE 0)]) ]

\* lines 193-196
ApplyPattern(st, r, row_pat, incr) ==
    [st EXCEPT !.grid[r] = row_pat,
               !.col_sum = List([c \in Idx |-> @[c] + incr.sum[c]]),
               !.col_bz  = List([c \in Idx |-> @[c] + incr.bz[c]])]

\* lines 199-211: the column pruning after row r was written
RowsLeft(g, r, c) == Cardinality({rr \in Idx : rr > r /\ g[rr][c] = None})

ColumnsFeasible(cs, cb, st, r) ==
    \A c \in Idx :
        LET bnd == ColBoundsSoFar(cs[c], cb[c], st.col_sum[c], st.col_bz[c],
                                  RowsLeft(st.grid, r, c))
        IN  /\ ~ bnd.none
            /\ bnd.lo <= cs[c]
            /\ cs[c] <= bnd.hi

\* Faulty variant: the grid row is restored, the column accumulators are not.
RollbackGridOnly(op, st, r, incr) ==
    [st EXCEPT !.grid[r] = List([c \in Idx |-> Get(op, r, c)])]

\* lines 217-220
Rollback(op, st, r, incr) ==
    [st EXCEPT !.grid[r] = List([c \in Idx |-> Get(op, r, c)]),
               !.col_sum = List([c \in Idx |-> @[c] - incr.sum[c]]),
               !.col_bz  = List([c \in Idx |-> @[c] - incr.bz[c]])]

\* dfs_row(r); TryPattern is one iteration of its for loop, on the i-th
\* pattern of row r; DfsRowLoop runs the iterations first..last in order.
\* Each returns the search state it leaves behind.
RECURSIVE DfsRow(_, _, _, _, _, _)
RECURSIVE DfsRowLoop(_, _, _, _, _, _, _, _)
RECURSIVE TryPattern(_, _, _, _, _, _, _)
DfsRow(cs, cb, op, pats, r, st) ==
    IF r = N THEN RecordIfComplete(cs, cb, st)
    ELSE DfsRowLoop(cs, cb, op, pats, r, 1, Len(pats[r]), st)

DfsRowLoop(cs, cb, op, pats, r, first, last, st) ==
    IF first > last THEN st
    ELSE IF first = last THEN TryPattern(cs, cb, op, pats, r, first, st)
    ELSE LET mid  == (first + last) \div 2
             left == DfsRowLoop(cs, cb, op, pats, r, first, mid, st)
         IN  IF left.raised THEN left
             ELSE DfsRowLoop(cs, cb, op, pats, r, mid + 1, last, left)

TryPattern(cs, cb, op, pats, r, i, st) ==
    IF st.raised THEN st
    ELSE LET row_pat == pats[r][i]
         IN  IF ~ PatternFits(st.grid, r, row_pat) THEN st
             ELSE LET incr == Incr(st.grid, r, row_pat)
                      st1  == ApplyPattern(st, r, row_pat, incr)
                      st2  == IF ColumnsFeasible(cs, cb, st1, r)
                              THEN DfsRow(cs, cb, op, pats, r + 1, st1)
                              ELSE st1
                  IN  IF st2.raised THEN st2 ELSE Rollback(op, st2, r, incr)

\* The result record: the list of boards, and whether the call threw.
EnumerateAllBoards(rs, rb, cs, cb, op) ==
    LET pats == AllRowPatterns(rs, rb, cs, cb, op)
    IN  IF \E r \in Idx : pats[r] = << >>
        THEN [solutions |-> << >>, raised |-> FALSE]
        ELSE LET st == DfsRow(cs, cb, op, pats, 0, InitSearch(op))
             IN  [solutions |-> st.solutions, raised |-> st.raised]

-----------------------------------------------------------------------------
(* Python floats (IEEE-754 binary64, round to nearest, ties to even) of    *)
(* the non-negative values compute_posteriors produces.  A float is        *)
(* <<e, hi, lo>>: the value (hi * 2^27 + lo) * 2^e with a 53-bit mantissa  *)
(* (2^25 <= hi < 2^26, 0 <= lo < 2^27); 0.0 is <<0, 0, 0>>.                *)

LimbBits == 27

Limb  == 2 ^ LimbBits
HiTop == 2 ^ (LimbBits - 1)

FZero == <<0, 0, 0>>

\* mantissa + 1, renormalised when it reaches 2^53
FBumpMantissa(e, hi, lo) ==
    IF lo + 1 < Limb THEN <<e, hi, lo + 1>>
    ELSE IF hi + 1 < HiTop THEN <<e, hi + 1, 0>>
    ELSE <<e + 1, HiTop \div 2, 0>>

\* The 53-bit mantissa hi:lo at exponent e, followed by a discarded part
\* that compares to one half unit in the last place as cmp (-1, 0, 1).
FRoundAt(e, hi, lo, cmp) ==
    IF cmp > 0 \/ (cmp = 0 /\ lo % 2 = 1) THEN FBumpMantissa(e, hi, lo) ELSE <<e, hi, lo>>

\* The least k with d * 2^k >= t, for 0 < d <= t
RECURSIVE FDivShift(_, _, _)
FDivShift(x, t, k) == IF x >= t THEN k ELSE FDivShift(2 * x, t, k + 1)

\* d / t for integers 0 <= d <= t, 0 < t < 2^22 (lines 247-250): with
\* t <= x = d * 2^k < 2t, the quotient floor(x * 2^52 / t) has 53 bits; it is
\* produced by long division, its leading bit first, then 9, 8, 8 bits (the
\* rest of hi) and 9, 9, 9 bits (lo), and rounded by the final remainder.
FDiv(d, t) ==
    IF d = 0 THEN FZero
    ELSE LET k  == FDivShift(d, t, 0)
             r0 == d * (2 ^ k) - t
             q1 == (r0 * 512) \div t
             r1 == (r0 * 512) % t
             q2 == (r1 * 256) \div t
             r2 == (r1 * 256) % t
             q3 == (r2 * 256) \div t
             r3 == (r2 * 256) % t
             q4 == (r3 * 512) \div t
             r4 == (r3 * 512) % t
             q5 == (r4 * 512) \div t
             r5 == (r4 * 512) % t
             q6 == (r5 * 512) \div t
             r6 == (r5 * 512) % t
         IN  FRoundAt(0 - k - (2 * LimbBits - 2),
                      (HiTop \div 2) + q1 * 65536 + q2 * 256 + q3,
                      q4 * 262144 + q5 * 512 + q6,
                      IF 2 * r6 > t THEN 1 ELSE IF 2 * r6 = t THEN 0 ELSE -1)

\* A mantissa h:l (l < 2^27) of 54 to 56 bits at exponent e, followed by
\* discarded non-zero bits iff sticky: rounded to 53 bits.
FNormalize(e, h, l, sticky) ==
    LET s    == IF h >= 4 * HiTop THEN 3 ELSE IF h >= 2 * HiTop THEN 2
                ELSE IF h >= HiTop THEN 1 ELSE 0
        p    == 2 ^ s
        drop == l % p
        half == p \div 2
        lo2  == (l \div p) + (h % p) * (Limb \div p)
        hi2  == h \div p
        cmp  == IF s = 0 THEN -1
                ELSE IF drop > half THEN 1
                ELSE IF drop < half THEN -1
                ELSE IF sticky THEN 1 ELSE 0
    IN  FRoundAt(e + s, hi2, lo2, cmp)

\* 2.0 * x is exact
FMul2(x) == IF x = FZero THEN FZero ELSE <<x[1] + 1, x[2], x[3]>>

\* 3.0 * x: the exact product 3 * mantissa, rounded once
FMul3(x) ==
    IF x = FZero THEN FZero
    ELSE LET l3 == 3 * x[3]
         IN  FNormalize(x[1], 3 * x[2] + (l3 \div Limb), l3 % Limb, FALSE)

\* h:l shifted right by n bits; the result is <<h, l, sticky>>
RECURSIVE FShiftRight(_, _, _, _)
FShiftRight(h, l, sticky, n) ==
    IF n >= LimbBits
    THEN FShiftRight(h \div Limb, h % Limb, sticky \/ l # 0, n - LimbBits)
    ELSE LET p == 2 ^ n
         IN  << h \div p, (l \div p) + (h % p) * (Limb \div p), sticky \/ (l % p # 0) >>

\* x + y for non-negative floats: the exact sum, rounded once.  Both
\* mantissas are extended by two low bits; y is the smaller operand.
FAddOrdered(x, y) ==
    LET sh == FShiftRight(4 * y[2] + ((4 * y[3]) \div Limb), (4 * y[3]) % Limb, FALSE,
                          IF x[1] - y[1] > 4 * LimbBits THEN 4 * LimbBits ELSE x[1] - y[1])
        xl == (4 * x[3]) % Limb
        xh == 4 * x[2] + ((4 * x[3]) \div Limb)
        l  == xl + sh[2]
    IN  FNormalize(x[1] - 2, xh + sh[1] + (l \div Limb), l % Limb, sh[3])

FLess(x, y) ==
    IF x = FZero THEN y # FZero
    ELSE IF y = FZero THEN FALSE
    ELSE \/ x[1] < y[1]
         \/ x[1] = y[1] /\ x[2] < y[2]
         \/ x[1] = y[1] /\ x[2] = y[2] /\ x[3] < y[3]

FAdd(x, y) ==
    IF x = FZero THEN y
    ELSE IF y = FZero THEN x
    ELSE IF FLess(x, y) THEN FAddOrdered(y, x) ELSE FAddOrdered(x, y)

-----------------------------------------------------------------------------
(* compute_posteriors.  A dict keyed by coordinates is a function on a set *)
(* of coordinates; it is iterated in insertion order, which for targets,   *)
(* counts and post is row-major order.                                      *)

EmptyDict == [rc \in {} |-> 0]

RowMajor == [k \in 1 .. (N * N) |-> << (k - 1) \div N, (k - 1) % N >>]

\* Faulty variant: the revealed coordinates stay among the targets.
TargetsAll(op) == Coord

\* line 235
Targets(op) == { rc \in Coord : rc \notin DOMAIN op }

\* Faulty variant: bombs are not tallied.
CountsNoBombs(boards, op) ==
    List([rc \in Targets(op) |->
        List([v \in Vals |-> IF v = 0 THEN 0
                             ELSE Cardinality({k \in 1 .. Len(boards) : boards[k][rc[1]][rc[2]] = v})])])

\* lines 236-240
Counts(boards, op) ==
    List([rc \in Targets(op) |->
        List([v \in Vals |-> Cardinality({k \in 1 .. Len(boards) : boards[k][rc[1]][rc[2]] = v})])])

\* lines 244-252: the record of one coordinate from its tallies d
PosteriorRecord(d) ==
    LET tot == d[0] + d[1] + d[2] + d[3]
        p   == List([v \in Vals |-> FDiv(d[v], tot)])
    IN  [ total |-> tot,
          p     |-> p,
          ev    |-> FAdd(FAdd(p[1], FMul2(p[2])), FMul3(p[3])) ]

ComputePosteriors(rs, rb, cs, cb, op) ==
    LET res == EnumerateAllBoards(rs, rb, cs, cb, op)
        cnt == Counts(res.solutions, op)
        tot(rc) == cnt[rc][0] + cnt[rc][1] + cnt[rc][2] + cnt[rc][3]
    IN  IF res.raised \/ res.solutions = << >>
        THEN [post |-> EmptyDict, nsol |-> 0, counts |-> EmptyDict,
              sols |-> << >>, raised |-> res.raised]
        ELSE [post   |-> List([rc \in { x \in Targets(op) : tot(x) # 0 } |-> PosteriorRecord(cnt[rc])]),
              nsol   |-> Len(res.solutions),
              counts |-> cnt,
              sols   |-> res.solutions,
              raised |-> FALSE]

-----------------------------------------------------------------------------
(* choose_next_safest: min() keeps the first item whose key no later item  *)
(* undercuts; the key is the tuple (p[0], -ev).                            *)

\* Faulty variant: the expected value does not break ties.
KeyLessBombOnly(a, b) == FLess(a.p[0], b.p[0])

KeyLess(a, b) ==
    \/ FLess(a.p[0], b.p[0])
    \/ a.p[0] = b.p[0] /\ FLess(b.ev, a.ev)

\* The loop of min(): cur is the minimum of the items before position k
\* of the row-major order, << >> when there is none yet.
RECURSIVE MinItem(_, _, _)
MinItem(posteriors, k, cur) ==
    IF k > N * N THEN cur
    ELSE IF RowMajor[k] \notin DOMAIN posteriors THEN MinItem(posteriors, k + 1, cur)
    ELSE IF cur = << >> \/ KeyLess(posteriors[RowMajor[k]], posteriors[cur[1]])
         THEN MinItem(posteriors, k + 1, << RowMajor[k] >>)
         ELSE MinItem(posteriors, k + 1, cur)

\* None is << >>; otherwise << coordinate >>, the record being posteriors[coordinate]
ChooseNextSafest(posteriors) ==
    IF DOMAIN posteriors = {} THEN << >> ELSE MinItem(posteriors, 1, << >>)

-----------------------------------------------------------------------------
(* sanity_check: TRUE when it returns an error message                     *)

LineInfeasible(sums, bombs, i) ==
    \/ ~ (0 <= bombs[i] /\ bombs[i] <= N)
    \/ ~ ((N - bombs[i]) * 1 <= sums[i] /\ sums[i] <= (N - bombs[i]) * 3)

SanityCheck(rs, rb, cs, cb) ==
    \/ SumIdx(rs) # SumIdx(cs)
    \/ SumIdx(rb) # SumIdx(cb)
    \/ \E i \in Idx : LineInfeasible(rs, rb, i)
    \/ \E j \in Idx : LineInfeasible(cs, cb, j)

-----------------------------------------------------------------------------
(* Bounds of the explored inputs.                                          *)

MaxOpenedInRow == 2

RowSumInputs  == -1 .. (3 * N + 1)
BombInputs    == -1 .. (N + 1)

ZeroList == [i \in Idx |-> 0]

\* Dicts whose keys are at most k coordinates of S.
DictsOver(S, k) ==
    UNION { [D -> Vals] : D \in { X \in SUBSET S : Cardinality(X) <= k } }

RowIdle   == row_r = 0 /\ patterns = << >>
SolveIdle == /\ sols = << >> /\ counts = EmptyDict /\ post = EmptyDict
             /\ nsol = 0 /\ best = << >> /\ raised = FALSE
DfsIdle   == /\ all_row_patterns = << >> /\ solutions = << >>
             /\ col_sum = << >> /\ col_bz = << >> /\ grid = << >>
             /\ stack = << >> /\ loop_i = 0
GameIdle  == step = 0 /\ msg = ""

-----------------------------------------------------------------------------
(* SpecRow: one call of _enumerate_row_patterns on an arbitrary row        *)
(* constraint and arbitrary revealed cells.                                *)

RowRows == {2}
RowOpenCols == {0, 2, 4}


InitRow ==
    /\ row_r \in RowRows
    /\ \E s \in RowSumInputs, b \in BombInputs :
          /\ row_sums  = [ZeroList EXCEPT ![row_r] = s]
          /\ row_bombs = [ZeroList EXCEPT ![row_r] = b]
    /\ col_sums = ZeroList
    /\ col_bombs = ZeroList
    /\ \E inrow \in DictsOver({row_r} \X RowOpenCols, MaxOpenedInRow),
          other \in {EmptyDict, [rc \in {<<0, 0>>} |-> 3], [rc \in {<<0, 0>>} |-> 0]} :
          opened = [rc \in DOMAIN inrow \cup DOMAIN other |->
                       IF rc \in DOMAIN inrow THEN inrow[rc] ELSE other[rc]]
    /\ pc = "call"
    /\ patterns = << >>
    /\ SolveIdle
    /\ DfsIdle
    /\ GameIdle

CallRowPatterns ==
    /\ pc = "call"
    /\ patterns' = EnumerateRowPatterns(row_r, row_sums, row_bombs, col_sums, col_bombs, opened)
    /\ pc' = "returned"
    /\ UNCHANGED <<inputVars, row_r, solveVars, dfsVars, gameVars>>

NextRow == CallRowPatterns

SpecRow == InitRow /\ [][NextRow]_vars

\* The set of values of a list.
Range(s) == { s[i] : i \in 1 .. Len(s) }

NoDup(s) == \A i, j \in 1 .. Len(s) : s[i] = s[j] => i = j

\* A length-N sequence over {0,1,2,3} that is a valid content of row r.
RowPatternOK(p, r) ==
    /\ \A c \in Idx : <<r, c>> \in DOMAIN opened => p[c] = opened[<<r, c>>]
    /\ Cardinality({c \in Idx : p[c] = 0}) = row_bombs[r]
    /\ SumIdx(p) = row_sums[r]

ValidRowPatterns(r) == { p \in [Idx -> Vals] : RowPatternOK(p, r) }

\* C3: _enumerate_row_patterns returns exactly, each once, the length-5
\* sequences over {0,1,2,3} that agree with the revealed cells of the row,
\* contain row_bombs[r] zeros and sum to row_sums[r].
\* In particular sum 0 with 5 bombs and nothing revealed gives only
\* [0,0,0,0,0], sum 15 with 0 bombs gives only [3,3,3,3,3], and 0 bombs with
\* a revealed bomb in the row gives the empty list.
OpenedInRow(r) == { rc \in DOMAIN opened : rc[1] = r }

C3_RowPatternsExact ==
    pc = "returned" =>
        /\ NoDup(patterns)
        /\ Range(patterns) = ValidRowPatterns(row_r)
        /\ (row_sums[row_r] = 0 /\ row_bombs[row_r] = N /\ OpenedInRow(row_r) = {})
               => patterns = << [c \in Idx |-> 0] >>
        /\ (row_sums[row_r] = 3 * N /\ row_bombs[row_r] = 0 /\ OpenedInRow(row_r) = {})
               => patterns = << [c \in Idx |-> 3] >>
        /\ (row_bombs[row_r] = 0 /\ \E rc \in OpenedInRow(row_r) : opened[rc] = 0)
               => patterns = << >>

C3_Witness ==
    /\ pc = "returned"
    /\ Len(patterns) >= 3
    /\ Cardinality(OpenedInRow(row_r)) = 2
    /\ \E rc \in OpenedInRow(row_r) : opened[rc] = 0
    /\ \E k \in 1 .. Len(patterns) : \E c \in Idx : patterns[k][c] = 3

-----------------------------------------------------------------------------
(* SpecSolve: one call of compute_posteriors and choose_next_safest on the *)
(* constraints of a hidden board, possibly perturbed, and a revealed map   *)
(* that may or may not agree with the hidden board.                        *)

MaxOpened == 2

BoardA == << <<0, 0, 0, 0, 0>>, <<2, 1, 2, 1, 1>>, <<0, 0, 0, 0, 0>>,
             <<1, 1, 1, 1, 3>>, <<0, 0, 0, 0, 0>> >>
BoardC == << <<0, 3, 3, 3, 3>>, <<3, 3, 3, 3, 3>>, <<3, 3, 3, 3, 3>>,
             <<3, 0, 0, 3, 3>>, <<3, 3, 3, 3, 3>> >>
BoardF == << <<0, 1, 1, 1, 1>>, <<1, 0, 2, 1, 1>>, <<1, 1, 1, 1, 1>>,
             <<1, 1, 1, 1, 1>>, <<1, 1, 1, 1, 1>> >>

\* A board written as a tuple of rows, as the 0-indexed grid of the code.
AsGrid(b) == [r \in Idx |-> [c \in Idx |-> b[r + 1][c + 1]]]

HiddenBoards == { AsGrid(b) : b \in {BoardA, BoardC, BoardF} }

RowSumsOf(h)  == [r \in Idx |-> SumIdx(h[r])]
RowBombsOf(h) == [r \in Idx |-> Cardinality({c \in Idx : h[r][c] = 0})]
ColSumsOf(h)  == [c \in Idx |-> SumIdx([r \in Idx |-> h[r][c]])]
ColBombsOf(h) == [c \in Idx |-> Cardinality({r \in Idx : h[r][c] = 0})]

\* A perturbation adds d to entry i of the named lists.
PerturbKinds == {"none", "row_sum", "col_sum", "row_bombs", "col_bombs", "sum_pair", "bomb_pair"}
PerturbIdx   == {2, 3}
Perturbs ==
    { [kind |-> "none", i |-> 0, d |-> 0] }
    \cup [kind : PerturbKinds \ {"none"}, i : PerturbIdx, d : {-1, 1}]

Bump(list, q, kinds) == IF q.kind \in kinds THEN [list EXCEPT ![q.i] = @ + q.d] ELSE list

FullReveal(h) == [rc \in Coord |-> h[rc[1]][rc[2]]]

SolveOpenCoords == { <<0, 0>>, <<1, 4>>, <<3, 2>> }

ConstraintsFrom(h, q) ==
    /\ row_sums  = Bump(RowSumsOf(h),  q, {"row_sum", "sum_pair"})
    /\ col_sums  = Bump(ColSumsOf(h),  q, {"col_sum", "sum_pair"})
    /\ row_bombs = Bump(RowBombsOf(h), q, {"row_bombs", "bomb_pair"})
    /\ col_bombs = Bump(ColBombsOf(h), q, {"col_bombs", "bomb_pair"})

InitSolve ==
    /\ \E h \in HiddenBoards, q \in Perturbs :
          /\ ConstraintsFrom(h, q)
          /\ opened \in DictsOver(SolveOpenCoords, MaxOpened) \cup {FullReveal(h)}
    /\ pc = "call"
    /\ RowIdle
    /\ SolveIdle
    /\ DfsIdle
    /\ GameIdle

CallSolve ==
    /\ pc = "call"
    /\ \E res \in {ComputePosteriors(row_sums, row_bombs, col_sums, col_bombs, opened)} :
          /\ sols'   = res.sols
          /\ raised' = res.raised
          /\ counts' = res.counts
          /\ post'   = res.post
          /\ nsol'   = res.nsol
          /\ best'   = ChooseNextSafest(res.post)
    /\ pc' = "returned"
    /\ UNCHANGED <<inputVars, rowVars, dfsVars, gameVars>>

NextSolve == CallSolve

SpecSolve == InitSolve /\ [][NextSolve]_vars

-----------------------------------------------------------------------------
(* What the constraints and the revealed map mean, stated directly.        *)

ZerosIn(line) == Cardinality({i \in Idx : line[i] = 0})

Column(g, c) == [r \in Idx |-> g[r][c]]

\* g is a complete grid that meets every row and column constraint and
\* agrees with the revealed map op.
BoardConsistent(g, op) ==
    /\ g \in [Idx -> [Idx -> Vals]]
    /\ \A r \in Idx : ZerosIn(g[r]) = row_bombs[r] /\ SumIdx(g[r]) = row_sums[r]
    /\ \A c \in Idx : ZerosIn(Column(g, c)) = col_bombs[c] /\ SumIdx(Column(g, c)) = col_sums[c]
    /\ \A rc \in DOMAIN op : g[rc[1]][rc[2]] = op[rc]

\* All consistent boards, by brute force: every way of stacking rows that are
\* valid on their own, kept when the columns and the revealed map agree.
RECURSIVE RowStacks(_)
RowStacks(k) ==
    IF k = 0 THEN { << >> }
    ELSE { Append(b, p) : b \in RowStacks(k - 1), p \in ValidRowPatterns(k - 1) }

ConsistentBoards ==
    { g \in { [r \in Idx |-> b[r + 1]] : b \in RowStacks(N) } : BoardConsistent(g, opened) }

\* C1: every board returned by _enumerate_all_boards is a complete 5x5 grid
\* over {0,1,2,3} whose rows and columns have the required bomb counts and
\* sums and which holds the revealed value at every revealed coordinate.
C1_BoardsSound ==
    pc = "returned" => \A k \in 1 .. Len(sols) : BoardConsistent(sols[k], opened)

C1_Witness ==
    /\ pc = "returned"
    /\ Len(sols) >= 2
    /\ DOMAIN opened # {}
    /\ \E k \in 1 .. Len(sols), r \in Idx, c \in Idx : sols[k][r][c] = 0 /\ <<r, c>> \notin DOMAIN opened

\* C2: every grid that satisfies the row constraints, the column
\* constraints and the revealed map occurs exactly once in the list returned
\* by _enumerate_all_boards.
C2_BoardsComplete ==
    pc = "returned" =>
        \A g \in ConsistentBoards : Cardinality({k \in 1 .. Len(sols) : sols[k] = g}) = 1

C2_Witness ==
    /\ pc = "returned"
    /\ Cardinality(ConsistentBoards) >= 3
    /\ DOMAIN opened # {}
    /\ \E r \in Idx : Cardinality(ValidRowPatterns(r)) > Cardinality({ g[r] : g \in ConsistentBoards })

\* C4: when compute_posteriors finds a board, the keys of the posterior map
\* are exactly the unrevealed coordinates, and for each of them the four
\* tallies sum to the record's total, which is the returned board count.
C4_PosteriorTallies ==
    (pc = "returned" /\ Len(sols) > 0) =>
        /\ DOMAIN post = Coord \ DOMAIN opened
        /\ \A rc \in DOMAIN post :
              /\ counts[rc][0] + counts[rc][1] + counts[rc][2] + counts[rc][3] = post[rc].total
              /\ post[rc].total = nsol
        /\ nsol = Len(sols)

C4_Witness ==
    /\ pc = "returned"
    /\ nsol >= 3
    /\ DOMAIN opened # {}
    /\ \E rc \in DOMAIN post : Cardinality({v \in Vals : counts[rc][v] > 0}) >= 3

\* C5: a revealed map that extends another one (same values on the shared
\* coordinates) never has more boards: the count for the map of the call is
\* at most the count for each of its sub-maps.
Restrict(d, D) == [rc \in D |-> d[rc]]

\* Every sub-map of a small revealed map; for the fully revealed board, the
\* sub-maps that lack one entry.
SubMaps(d) ==
    IF Cardinality(DOMAIN d) < N * N
    THEN { Restrict(d, D) : D \in SUBSET DOMAIN d }
    ELSE { Restrict(d, DOMAIN d \ {rc}) : rc \in DOMAIN d }

BoardCount(op) ==
    ComputePosteriors(row_sums, row_bombs, col_sums, col_bombs, op).nsol

C5_MonotonicShrinkage ==
    (pc = "returned" /\ nsol > 0) => \A A \in SubMaps(opened) : nsol <= BoardCount(A)

C5_Witness ==
    /\ pc = "returned"
    /\ nsol > 0
    /\ \E A \in SubMaps(opened) : nsol < BoardCount(A)

\* C6: choose_next_safest returns a coordinate of minimum P(0); among those,
\* one of maximum expected value; among those, the first in row-major order.
RowMajorBefore(a, b) == a[1] < b[1] \/ (a[1] = b[1] /\ a[2] <= b[2])

C6_SafestChoice ==
    (pc = "returned" /\ DOMAIN post # {}) =>
        /\ Len(best) = 1
        /\ best[1] \in DOMAIN post
        /\ \A x \in DOMAIN post :
              /\ ~ FLess(post[x].p[0], post[best[1]].p[0])
              /\ post[x].p[0] = post[best[1]].p[0] => ~ FLess(post[best[1]].ev, post[x].ev)
              /\ (post[x].p[0] = post[best[1]].p[0] /\ post[x].ev = post[best[1]].ev)
                     => RowMajorBefore(best[1], x)

C6_Witness ==
    /\ pc = "returned"
    /\ Len(best) = 1
    /\ \E x, y, z \in DOMAIN post :
          /\ FLess(post[best[1]].p[0], post[x].p[0])
          /\ post[y].p[0] = post[best[1]].p[0] /\ FLess(post[y].ev, post[best[1]].ev)
          /\ RowMajorBefore(y, best[1])
          /\ z # best[1] /\ post[z].p[0] = post[best[1]].p[0] /\ post[z].ev = post[best[1]].ev

\* C7: constraints that fail the feasibility precondition, and inputs where
\* some row has no pattern, give the empty board list, the empty posterior
\* map with board count 0, and no recommendation; nothing is raised.
SomeRowHasNoPattern ==
    \E r \in Idx :
        EnumerateRowPatterns(r, row_sums, row_bombs, col_sums, col_bombs, opened) = << >>

C7_UnsatisfiableIsEmpty ==
    (pc = "returned" /\ (SanityCheck(row_sums, row_bombs, col_sums, col_bombs) \/ SomeRowHasNoPattern)) =>
        /\ sols = << >>
        /\ post = EmptyDict
        /\ nsol = 0
        /\ best = << >>
        /\ ~ raised

\* the search ran (every row has patterns) on constraints with an out-of-range
\* bomb count
C7_Witness ==
    /\ pc = "returned"
    /\ ~ SomeRowHasNoPattern
    /\ \E c \in Idx : col_bombs[c] < 0
    /\ DOMAIN opened # {}
    /\ sols = << >>

-----------------------------------------------------------------------------
(* SpecDfs: _enumerate_all_boards step by step.  stack holds one frame per *)
(* pattern that is currently applied: frame k belongs to dfs_row(k - 1)    *)
(* and records the position i of its loop and the deltas incr; the frame   *)
(* that is running its loop is dfs_row(Len(stack)).  The field saved of a  *)
(* frame is a history value the code does not keep: the grid and the       *)
(* accumulators as they were just before the pattern was applied.          *)

MaxOpenedDfs == 2

DfsPerturbs == { q \in Perturbs : q.kind \in {"none", "sum_pair", "col_bombs"} }

InitDfs ==
    /\ \E h \in HiddenBoards, q \in DfsPerturbs :
          /\ ConstraintsFrom(h, q)
          /\ opened \in DictsOver(SolveOpenCoords, MaxOpenedDfs)
    /\ pc = "start"
    /\ RowIdle
    /\ SolveIdle
    /\ DfsIdle
    /\ GameIdle

\* The record the helper operators work on, from the variables.
SearchState ==
    [grid |-> grid, col_sum |-> col_sum, col_bz |-> col_bz,
     solutions |-> solutions, raised |-> raised]

SetSearchState(st) ==
    /\ grid'      = st.grid
    /\ col_sum'   = st.col_sum
    /\ col_bz'    = st.col_bz
    /\ solutions' = st.solutions
    /\ raised'    = st.raised

\* lines 151-165 and the call dfs_row(0) of line 222
DfsStart ==
    /\ pc = "start"
    /\ LET pats == AllRowPatterns(row_sums, row_bombs, col_sums, col_bombs, opened)
       IN  IF \E r \in Idx : pats[r] = << >>
           THEN /\ all_row_patterns' =
                       List([r \in { x \in Idx : \A y \in 0 .. x : pats[y] # << >> } |-> pats[r]])
                /\ pc' = "done"
                /\ UNCHANGED <<solutions, col_sum, col_bz, grid, raised>>
           ELSE /\ all_row_patterns' = pats
                /\ SetSearchState(InitSearch(opened))
                /\ pc' = "entry"
    /\ UNCHANGED <<inputVars, rowVars, postVars, stack, loop_i, gameVars>>

\* lines 168-174: dfs_row(N) checks the columns, records the board, returns
DfsRecord ==
    /\ pc = "entry"
    /\ Len(stack) = N
    /\ SetSearchState(RecordIfComplete(col_sums, col_bombs, SearchState))
    /\ pc' = IF RecordIfComplete(col_sums, col_bombs, SearchState).raised
             THEN "done" ELSE "rollback"
    /\ UNCHANGED <<inputVars, rowVars, postVars, all_row_patterns, stack, loop_i, gameVars>>

\* line 176: dfs_row(r), r < N, starts its loop
DfsEnterLoop ==
    /\ pc = "entry"
    /\ Len(stack) < N
    /\ loop_i' = 1
    /\ pc' = "loop"
    /\ UNCHANGED <<inputVars, rowVars, solveVars, all_row_patterns, solutions,
                   col_sum, col_bz, grid, stack, gameVars>>

\* line 176: the loop is exhausted and dfs_row returns
DfsLoopExit ==
    /\ pc = "loop"
    /\ loop_i > Len(all_row_patterns[Len(stack)])
    /\ pc' = IF stack = << >> THEN "done" ELSE "rollback"
    /\ UNCHANGED <<inputVars, rowVars, solveVars, dfsVars, gameVars>>

\* lines 177-214, one iteration of the loop up to the recursive call: a
\* pattern that contradicts a set cell of the row is skipped; otherwise it
\* is written, the columns are tested, and the search either descends or
\* goes straight to the rollback
DfsTryPattern ==
    /\ pc = "loop"
    /\ loop_i <= Len(all_row_patterns[Len(stack)])
    /\ LET r       == Len(stack)
           row_pat == all_row_patterns[r][loop_i]
           incr    == Incr(grid, r, row_pat)
           st1     == ApplyPattern(SearchState, r, row_pat, incr)
       IN  IF ~ PatternFits(grid, r, row_pat)
           THEN /\ loop_i' = loop_i + 1
                /\ UNCHANGED <<pc, solutions, col_sum, col_bz, grid, raised, stack>>
           ELSE /\ SetSearchState(st1)
                /\ stack' = Append(stack, [i |-> loop_i, incr |-> incr,
                                           saved |-> [grid |-> grid, col_sum |-> col_sum,
                                                      col_bz |-> col_bz]])
                /\ pc' = IF ColumnsFeasible(col_sums, col_bombs, st1, r)
                         THEN "entry" ELSE "rollback"
                /\ UNCHANGED loop_i
    /\ UNCHANGED <<inputVars, rowVars, postVars, all_row_patterns, gameVars>>

\* lines 217-220, then the next iteration of the loop
DfsRollback ==
    /\ pc = "rollback"
    /\ LET top == stack[Len(stack)]
       IN  /\ SetSearchState(Rollback(opened, SearchState, Len(stack) - 1, top.incr))
           /\ loop_i' = top.i + 1
    /\ stack' = SubSeq(stack, 1, Len(stack) - 1)
    /\ pc' = "loop"
    /\ UNCHANGED <<inputVars, rowVars, postVars, all_row_patterns, gameVars>>

NextDfs ==
    \/ DfsStart
    \/ DfsRecord
    \/ DfsEnterLoop
    \/ DfsLoopExit
    \/ DfsTryPattern
    \/ DfsRollback

SpecDfs == InitDfs /\ [][NextDfs]_vars

\* The stepwise search ends with the list the operator form computes.
DfsAgreesWithOperator ==
    pc = "done" =>
        LET res == EnumerateAllBoards(row_sums, row_bombs, col_sums, col_bombs, opened)
        IN  solutions = res.solutions /\ raised = res.raised

SetCells(c) == { rr \in Idx : grid[rr][c] # None }

EntryInvariant(r) ==
    /\ \A rr \in Idx, c \in Idx :
          IF rr < r THEN grid[rr][c] \in Vals ELSE grid[rr][c] = Get(opened, rr, c)
    /\ \A c \in Idx :
          /\ col_sum[c] = SumIdx([rr \in Idx |-> IF rr \in SetCells(c) THEN grid[rr][c] ELSE 0])
          /\ col_bz[c]  = Cardinality({ rr \in SetCells(c) : grid[rr][c] = 0 })

\* C8: at every entry to dfs_row(r) the rows below r are fully assigned, the
\* rows r..4 hold exactly their revealed cells, and col_sum / col_bz are the
\* sums and bomb counts of the set cells of each column; the rollback after a
\* tried pattern puts the grid and both accumulators back to what they were
\* before the pattern was applied; no step of the solve changes the revealed
\* map.
C8_BacktrackingExact ==
    /\ [](pc = "entry" => EntryInvariant(Len(stack)))
    /\ [][ /\ opened' = opened
           /\ pc = "rollback" =>
                 /\ grid'    = stack[Len(stack)].saved.grid
                 /\ col_sum' = stack[Len(stack)].saved.col_sum
                 /\ col_bz'  = stack[Len(stack)].saved.col_bz ]_vars

\* a rollback that follows a recorded board, with a revealed cell in play
C8_Witness ==
    /\ pc = "loop"
    /\ Len(stack) = N - 1
    /\ loop_i > 1
    /\ Len(solutions) >= 2
    /\ DOMAIN opened # {}
    /\ EntryInvariant(Len(stack))

-----------------------------------------------------------------------------
(* SpecGame: interactive_game.  The constraints are what the user typed at *)
(* lines 297-300.  Each action runs from one blocking input() to the next: *)
(* the handling of the user's answer and, unless the session ends, the     *)
(* head of the next loop iteration up to the prompt of line 323.  msg is   *)
(* what the session last reported; pc = "prompt" is the wait at line 323.  *)

BoardD == << <<2, 1, 1, 1, 1>>, <<1, 2, 1, 1, 1>>, <<1, 1, 1, 1, 1>>,
             <<1, 1, 1, 1, 1>>, <<1, 1, 1, 1, 1>> >>

GameBoards   == { AsGrid(b) : b \in {BoardA, BoardD} }
GamePerturbs == { q \in Perturbs : q.kind \in {"none", "row_sum", "sum_pair"} }

InitGame ==
    /\ \E h \in GameBoards, q \in GamePerturbs : ConstraintsFrom(h, q)
    /\ opened = EmptyDict
    /\ pc = "start"
    /\ RowIdle
    /\ SolveIdle
    /\ DfsIdle
    /\ GameIdle

\* opened[rc] = v
DictSet(d, rc, v) == List([x \in DOMAIN d \cup {rc} |-> IF x = rc THEN v ELSE d[x]])

\* lines 309-321: the loop from its head to the prompt, with the revealed map
\* op; said is what was reported on the way into this iteration.
LoopHead(op, said) ==
    \E res \in {ComputePosteriors(row_sums, row_bombs, col_sums, col_bombs, op)} :
        \E item \in {ChooseNextSafest(res.post)} :
            /\ post'   = res.post
            /\ nsol'   = res.nsol
            /\ raised' = res.raised
            /\ IF res.raised
               THEN msg' = "exception" /\ pc' = "ended" /\ best' = best
               ELSE IF res.post = EmptyDict
               THEN msg' = "contradiction" /\ pc' = "ended" /\ best' = best
               ELSE IF item = << >>
               THEN msg' = "no_recommendation" /\ pc' = "ended" /\ best' = item
               ELSE msg' = said /\ pc' = "prompt" /\ best' = item

\* lines 302-307, then the first loop head
GameStart ==
    /\ pc = "start"
    /\ IF SanityCheck(row_sums, row_bombs, col_sums, col_bombs)
       THEN /\ msg' = "input_error"
            /\ pc' = "ended"
            /\ UNCHANGED <<opened, step, post, nsol, best, raised>>
       ELSE /\ opened' = EmptyDict
            /\ step' = 0
            /\ LoopHead(EmptyDict, "started")
    /\ UNCHANGED <<row_sums, row_bombs, col_sums, col_bombs, rowVars, sols, counts, dfsVars>>

\* lines 324-325
GameQuit ==
    /\ pc = "prompt"
    /\ msg' = "quit"
    /\ pc' = "ended"
    /\ UNCHANGED <<inputVars, rowVars, solveVars, dfsVars, step>>

\* lines 326-330: anything but q, 0, 1, 2, 3; continue goes to the loop head
GameInvalidInput ==
    /\ pc = "prompt"
    /\ LoopHead(opened, "invalid")
    /\ UNCHANGED <<inputVars, rowVars, sols, counts, dfsVars, step>>

\* lines 326-336: the user types v
GameReveal ==
    /\ pc = "prompt"
    /\ \E v \in Vals :
          /\ opened' = DictSet(opened, best[1], v)
          /\ step' = step + 1
          /\ IF v = 0
             THEN /\ msg' = "game_over"
                  /\ pc' = "ended"
                  /\ UNCHANGED <<post, nsol, best, raised>>
             ELSE LoopHead(DictSet(opened, best[1], v), "revealed")
    /\ UNCHANGED <<row_sums, row_bombs, col_sums, col_bombs, rowVars, sols, counts, dfsVars>>

NextGame ==
    \/ GameStart
    \/ GameQuit
    \/ GameInvalidInput
    \/ GameReveal

SpecGame == InitGame /\ [][NextGame]_vars

\* C9: in the interactive session the revealed map starts empty and only
\* grows: an accepted input adds exactly one entry, at the recommended
\* coordinate, which was not revealed before; no entry is changed or removed;
\* an invalid input leaves the map unchanged; the constraints never change.
C9_RevealedMapOnlyGrows ==
    /\ [](Cardinality(DOMAIN opened) = step)
    /\ [][<<row_sums, row_bombs, col_sums, col_bombs>>' =
              <<row_sums, row_bombs, col_sums, col_bombs>>]_vars
    /\ [][\A rc \in DOMAIN opened : rc \in DOMAIN opened' /\ opened'[rc] = opened[rc]]_vars
    /\ [][step' # step =>
              /\ pc = "prompt"
              /\ step' = step + 1
              /\ best[1] \notin DOMAIN opened
              /\ DOMAIN opened' = DOMAIN opened \cup {best[1]}
              /\ opened'[best[1]] \in Vals]_vars
    /\ [][step' = step => opened' = opened]_vars
    /\ [][msg' = "invalid" => (step' = step /\ opened' = opened)]_vars

C9_Witness ==
    /\ pc = "prompt"
    /\ msg = "invalid"
    /\ step >= 3
    /\ Cardinality(DOMAIN opened) = 3

\* C10: compute_posteriors returns the empty map exactly when its board
\* count is 0, and the session reports a contradiction only when no board is
\* consistent with the constraints and the revealed cells.
C10_ContradictionOnlyWhenUnsatisfiable ==
    /\ msg \in {"started", "revealed", "invalid", "contradiction"}
          => (post = EmptyDict <=> nsol = 0)
    /\ msg = "contradiction" => ConsistentBoards = {}

====
